---- MODULE Spec2Model ----
(***************************************************************************)
(* Provider routing and dispatch of the RPC proxy:                         *)
(*   - ProviderRepository (src/src/providers/mod.rs): the provider maps,   *)
(*     the HTTP and WS weight tables, registration, weighted selection     *)
(*     and the weight update pass;                                         *)
(*   - the provider catalogs (src/src/env/*.rs) and init_providers         *)
(*     (src/src/lib.rs);                                                   *)
(*   - the adapters' proxy and rate-limit classifiers                      *)
(*     (src/src/providers/*.rs);                                           *)
(*   - the Dispatcher of spec.md 4.5, whose source file is not part of     *)
(*     src/: it is modelled from the specification text.                   *)
(*   - the WS bridge (src/src/ws.rs);                                      *)
(*   - the ENSIP-11 coin type conversions (src/src/utils/crypto.rs);       *)
(*   - the profile attributes handler                                      *)
(*     (src/src/handlers/profile/attributes.rs);                           *)
(*   - the chain-agnostic check handler                                    *)
(*     (src/src/handlers/chain_agnostic/check.rs);                         *)
(*   - the project data cache (src/src/project/storage/mod.rs).            *)
(***************************************************************************)
EXTENDS Integers, Sequences, FiniteSets, TLC

VARIABLES
    scope,              \* the chain whose catalog entries this run registers
    boot,               \* init_providers: number of registration calls done
    providers,          \* ProviderRepository.providers: kind -> adapter
    ws_providers,       \* ProviderRepository.ws_providers: kind -> adapter
    weight_resolver,    \* ProviderRepository.weight_resolver: chain -> list
    ws_weight_resolver, \* ProviderRepository.ws_weight_resolver
    upd,                \* the weight updater task (update_weights)
    sel,                \* the selection in progress (get_*_provider_for_chain_id)
    req,                \* the request in flight (Dispatcher)
    bridge,             \* the WS bridge of one connection (ws::proxy)
    call,               \* one exchange of an adapter with its upstream
    conv,               \* one ENSIP-11 coin type conversion
    profile,            \* one call of the profile attributes handler
    ca,                 \* one call of the chain-agnostic check handler
    project             \* the project data cache and the calls of ProjectStorage

\* the state of the repository, its updater and its callers
repo == <<scope, boot, providers, ws_providers, weight_resolver, ws_weight_resolver,
          upd, sel, req>>

\* the state of the other handlers and of the project storage
tasks == <<profile, ca, project>>

vars == <<repo, bridge, call, conv, tasks>>

(***************************************************************************)
(* Bounds of the exploration.                                              *)
(***************************************************************************)
\* largest value explored for the draw rand::random::<u32>() % 25
MaxSample == 1
\* upstream calls explored within one request
MaxCalls == 3
\* largest token balance and transfer value explored
MaxBalance == 2
\* cache writes explored as spawned and not yet run
MaxPending == 2

(***************************************************************************)
(* Catalog: provider kinds, priorities, supported chains.                  *)
(***************************************************************************)
ProviderKind == {"Infura", "Pokt", "Binance", "ZKSync", "Publicnode", "Omniatech"}

\* "eip155:99999" is listed by no catalog.
UnknownChain == "eip155:99999"

\* The catalog chains explored. The lists of two chains share no cell and a
\* selection reads the list of one chain only, so each run registers the
\* catalog entries of one chain (scope) and requests name it or UnknownChain.
Scopes == {"eip155:1", "eip155:10", "eip155:17000"}

\* the chains explored with the handlers' use of a selected adapter: one that
\* Infura serves over HTTP and WS, and one it serves over HTTP only
WsScopes == {"eip155:1", "eip155:137"}

\* the chains explored with the Dispatcher: two providers, and one provider
DispatchScopes == {"eip155:10", "eip155:17000"}

\* a spelling of a catalog chain id that differs from it in letter case only
MixedCase(chain) ==
    CASE chain = "eip155:1" -> "EIP155:1"
      [] chain = "eip155:10" -> "EIP155:10"
      [] chain = "eip155:17000" -> "Eip155:17000"
      [] chain = "eip155:137" -> "EIP155:137"
      [] OTHER -> chain

\* str::to_lowercase, on the chain ids explored
to_lowercase(chain) ==
    CASE chain = "EIP155:1" -> "eip155:1"
      [] chain = "EIP155:10" -> "eip155:10"
      [] chain = "Eip155:17000" -> "eip155:17000"
      [] chain = "EIP155:137" -> "eip155:137"
      [] OTHER -> chain

\* the chain ids a caller passes
ChainIds == {scope, MixedCase(scope), UnknownChain}

NoChains == [c \in {} |-> [label |-> "", priority |-> "Disabled"]]

\* Weight::new(priority): the initial value of a weight cell.
PriorityValue(priority) ==
    CASE priority = "Disabled" -> 0
      [] priority = "Low" -> 1
      [] priority = "Normal" -> 2
      [] priority = "High" -> 3
      [] priority = "Max" -> 4

\* The catalogs, restricted to Scopes and WsScopes.
PoktChains ==
    ("eip155:1" :> [label |-> "mainnet", priority |-> "Disabled"])
    @@ ("eip155:10" :> [label |-> "optimism-mainnet", priority |-> "Normal"])
    @@ ("eip155:137" :> [label |-> "poly-mainnet", priority |-> "High"])

OmniatechChains ==
    ("eip155:1" :> [label |-> "eth", priority |-> "Low"])
    @@ ("eip155:10" :> [label |-> "op", priority |-> "Normal"])
    @@ ("eip155:137" :> [label |-> "matic", priority |-> "Low"])

PublicnodeChains ==
    ("eip155:1" :> [label |-> "ethereum", priority |-> "High"])
    @@ ("eip155:17000" :> [label |-> "ethereum-holesky-rpc", priority |-> "High"])
    @@ ("eip155:137" :> [label |-> "polygon-bor", priority |-> "Normal"])

\* The Binance, ZKSync and Infura catalogs are not part of src/.
BinanceChains == NoChains

ZKSyncChains == NoChains

\* InfuraConfig keeps two catalogs, supported_chains and supported_ws_chains;
\* Polygon is served over HTTP only.
InfuraChains ==
    ("eip155:1" :> [label |-> "mainnet", priority |-> "Normal"])
    @@ ("eip155:137" :> [label |-> "polygon-mainnet", priority |-> "Normal"])

InfuraWsChains ==
    ("eip155:1" :> [label |-> "mainnet", priority |-> "Normal"])

InScope(chains) == [c \in DOMAIN chains \cap {scope} |-> chains[c]]

\* ProviderConfig::supported_chains of the config of `kind`
supported_chains(kind) ==
    InScope(CASE kind = "Pokt" -> PoktChains
              [] kind = "Omniatech" -> OmniatechChains
              [] kind = "Publicnode" -> PublicnodeChains
              [] kind = "Binance" -> BinanceChains
              [] kind = "ZKSync" -> ZKSyncChains
              [] kind = "Infura" -> InfuraChains)

\* ProviderConfig::supported_ws_chains
supported_ws_chains(kind) ==
    InScope(IF kind = "Infura" THEN InfuraWsChains ELSE NoChains)

\* init_providers: the add_provider calls in program order, then
\* add_ws_provider::<InfuraWsProvider, InfuraConfig>
RegisterOrder == <<"Pokt", "Binance", "Omniatech", "ZKSync", "Publicnode", "Infura">>

WsRegisterOrder == <<"Infura">>

BootSteps == Len(RegisterOrder) + Len(WsRegisterOrder)

Booted == boot = BootSteps

(***************************************************************************)
(* Registration.                                                           *)
(***************************************************************************)
\* RpcProviderFactory::new: the adapter keeps chain -> upstream label
NewAdapter(kind, chains) ==
    [kind |-> kind, supported_chains |-> [c \in DOMAIN chains |-> chains[c].label]]

\* Mutant: the adapter is not put into the provider map.
InsertProvider_Skip(map, kind, adapter) == map

\* self.providers.insert(provider_config.provider_kind(), arc_provider)
InsertProvider(map, kind, adapter) ==
    [k \in DOMAIN map \cup {kind} |-> IF k = kind THEN adapter ELSE map[k]]

\* .entry(chain_id).or_insert_with(Vec::new).push((provider_kind, weight)),
\* for each (chain_id, (_, weight)) of the catalog
PushChains(table, kind, chains) ==
    [c \in DOMAIN table \cup DOMAIN chains |->
        IF c \in DOMAIN chains
        THEN Append(IF c \in DOMAIN table THEN table[c] ELSE <<>>,
                    [kind |-> kind, weight |-> PriorityValue(chains[c].priority)])
        ELSE table[c]]

EmptyMap == [k \in {} |-> 0]

(***************************************************************************)
(* Selector: get_provider_for_chain_id / get_ws_provider_for_chain_id.     *)
(* Both run the same steps, on their own table and provider map.           *)
(***************************************************************************)
NoKey == "-"

\* Mutant: a chain without a list falls back to the list of some chain.
TableFind_Fallback(table, chain) ==
    IF chain \in DOMAIN table /\ table[chain] # <<>> THEN chain
    ELSE IF DOMAIN table # {} THEN CHOOSE c \in DOMAIN table : TRUE
    ELSE NoKey

\* self.weight_resolver.get(chain_id), and providers.is_empty(): the key of
\* the list the selection borrows, NoKey when the selector returns None
TableFind(table, chain) ==
    IF chain \in DOMAIN table /\ table[chain] # <<>> THEN chain ELSE NoKey

RECURSIVE Sum(_)
\* the total WeightedIndex::new accumulates
Sum(weights) ==
    IF weights = <<>> THEN 0 ELSE Head(weights) + Sum(Tail(weights))

\* WeightedIndex::new(weights) is Ok: it is Err(AllWeightsZero) on a zero total
WeightedIndexOk(weights) == Sum(weights) > 0

\* WeightedIndex.cumulative_weights[k]: the total of the first k weights
CumulativeWeight(weights, k) == Sum(SubSeq(weights, 1, k))

\* Mutant: the cumulative weights < r are counted, instead of those <= r.
WeightedIndexPick_Strict(weights, r) ==
    1 + Cardinality({k \in 1..(Len(weights) - 1) : CumulativeWeight(weights, k) < r})

\* WeightedIndex::sample for the uniform draw r of [0, total): the number of
\* cumulative weights (the total left out) that are <= r, as an index from 1
WeightedIndexPick(weights, r) ==
    1 + Cardinality({k \in 1..(Len(weights) - 1) : CumulativeWeight(weights, k) <= r})

\* Mutant: a uniform draw over the entries, whatever their weights.
WeightedIndexSample_Uniform(weights) == 1..Len(weights)

\* dist.sample(&mut OsRng): the indices the draw can yield
WeightedIndexSample(weights) ==
    {WeightedIndexPick(weights, r) : r \in 0..(Sum(weights) - 1)}

\* self.providers.get(provider).cloned(): the adapter's kind, or "None"
ProviderGet(map, kind) == IF kind \in DOMAIN map THEN map[kind].kind ELSE "None"

Table(ws) == IF ws THEN ws_weight_resolver ELSE weight_resolver

ProviderMap(ws) == IF ws THEN ws_providers ELSE providers

NoSel == [pc |-> "none", ws |-> FALSE, chain |-> "", excluded |-> {}, key |-> NoKey,
          loaded |-> <<>>, zero_since |-> {}, overlap |-> FALSE, index |-> 0,
          outcome |-> "None"]

\* Entry of the selector, up to the emptiness check (a read of the table's
\* immutable structure). excluded is the set the caller wants left out;
\* zero_since records the entries whose cell holds 0 when the selection starts;
\* overlap, whether the updater stored into the list since the selection started.
StartSelection(ws, chain, excluded) ==
    LET key == TableFind(Table(ws), chain)
    IN [NoSel EXCEPT
          !.pc = IF key = NoKey THEN "returned" ELSE "load",
          !.ws = ws, !.chain = chain, !.excluded = excluded, !.key = key,
          !.zero_since = IF key = NoKey THEN {}
                         ELSE {i \in 1..Len(Table(ws)[key]) : Table(ws)[key][i].weight = 0}]

\* the value Weight::new gave the catalog's cell of entry i of chain's list
CatalogWeight(table, chain, i) ==
    PriorityValue(supported_chains(table[chain][i].kind)[chain].priority)

\* Mutant: the load reads a copy of the cell made when the catalog was read.
LoadWeight_Catalog(table, chain, i) == CatalogWeight(table, chain, i)

\* Weight::value(): self.0.load(SeqCst) on the cell of entry i of chain's list
LoadWeight(table, chain, i) == table[chain][i].weight

\* providers.iter().map(|(_, weight)| weight.value()): one atomic load
SelectLoad ==
    /\ sel.pc = "load"
    /\ Len(sel.loaded) < Len(Table(sel.ws)[sel.key])
    /\ sel' = [sel EXCEPT !.loaded =
                 Append(@, LoadWeight(Table(sel.ws), sel.key, Len(sel.loaded) + 1))]
    /\ UNCHANGED <<tasks, bridge, call, conv, scope, boot, providers, ws_providers, weight_resolver, ws_weight_resolver,
                   upd, req>>

\* WeightedIndex::new(weights).unwrap(), dist.sample, self.providers.get
SelectSample ==
    /\ sel.pc = "load"
    /\ Len(sel.loaded) = Len(Table(sel.ws)[sel.key])
    /\ IF WeightedIndexOk(sel.loaded)
       THEN \E i \in WeightedIndexSample(sel.loaded) :
              sel' = [sel EXCEPT !.pc = "returned", !.index = i,
                        !.outcome = ProviderGet(ProviderMap(sel.ws),
                                                Table(sel.ws)[sel.key][i].kind)]
       ELSE sel' = [sel EXCEPT !.pc = "returned", !.outcome = "Panic"]
    /\ UNCHANGED <<tasks, bridge, call, conv, scope, boot, providers, ws_providers, weight_resolver, ws_weight_resolver,
                   upd, req>>

\* the excluded sets a caller passes: none, or the providers of the chain
ExcludedSets(chain) ==
    {{}} \cup (IF chain \in DOMAIN weight_resolver
               THEN {{weight_resolver[chain][i].kind :
                        i \in 1..Len(weight_resolver[chain])}}
               ELSE {})

\* a call of get_provider_for_chain_id by a handler
get_provider_for_chain_id ==
    /\ Booted
    /\ sel.pc = "none"
    /\ \E chain \in ChainIds :
         \E excluded \in ExcludedSets(chain) :
            sel' = StartSelection(FALSE, chain, excluded)
    /\ UNCHANGED <<tasks, bridge, call, conv, scope, boot, providers, ws_providers, weight_resolver,
                   ws_weight_resolver, upd, req>>

\* a call of get_ws_provider_for_chain_id by the WS handler
get_ws_provider_for_chain_id ==
    /\ Booted
    /\ sel.pc = "none"
    /\ \E chain \in ChainIds : sel' = StartSelection(TRUE, chain, {})
    /\ UNCHANGED <<tasks, bridge, call, conv, scope, boot, providers, ws_providers, weight_resolver,
                   ws_weight_resolver, upd, req>>

\* the handler has taken the selector's answer (or was unwound by the panic)
SelectReturn ==
    /\ sel.pc = "returned"
    /\ sel' = NoSel
    /\ UNCHANGED <<tasks, bridge, call, conv, scope, boot, providers, ws_providers, weight_resolver,
                   ws_weight_resolver, upd, req>>

(***************************************************************************)
(* Weight updater: update_weights.                                         *)
(***************************************************************************)
\* the modulus of rand::random::<u32>() % 25
WeightModulus == 25

\* Mutant: the store also moves the entry to the front of the chain's list.
StoreWeight_Promote(table, chain, i, v) ==
    [table EXCEPT ![chain] =
        <<[kind |-> @[i].kind, weight |-> v]>>
        \o SubSeq(@, 1, i - 1) \o SubSeq(@, i + 1, Len(@))]

\* weight.0.store(v, SeqCst) on the cell of entry i of chain's list
StoreWeight(table, chain, i, v) == [table EXCEPT ![chain][i].weight = v]

\* Mutant: the WS table's entry of a provider shares its cell with the HTTP
\* table's entry, so the store shows in both.
WsTableOnStore_SharedCell(ws_table, chain, kind, v) ==
    IF chain \in DOMAIN ws_table
    THEN [ws_table EXCEPT ![chain] =
            [i \in 1..Len(@) |-> IF @[i].kind = kind
                                 THEN [kind |-> kind, weight |-> v] ELSE @[i]]]
    ELSE ws_table

\* The WS table as a store into the HTTP cell of (kind, chain) leaves it:
\* update_weights iterates self.weight_resolver only, and the cells of the WS
\* table were moved in from a config value of their own.
WsTableOnStore(ws_table, chain, kind, v) == ws_table

\* stored records, for each cell <<chain, i>> the updater has stored into, the
\* value of its last store.
NoUpd == [pc |-> "sleep", order |-> <<>>, ci |-> 0, pi |-> 0, stored |-> <<>>]

\* the orders self.weight_resolver.iter() can visit the keys in
IterOrders(table) ==
    {o \in [1..Cardinality(DOMAIN table) -> DOMAIN table] :
        \A a, b \in DOMAIN o : a # b => o[a] # o[b]}

\* a tick of the updater task: update_weights is entered
update_weights_begin ==
    /\ Booted
    /\ upd.pc = "sleep"
    /\ \E o \in IterOrders(weight_resolver) :
         upd' = [upd EXCEPT !.pc = "store", !.order = o, !.ci = 1, !.pi = 1]
    /\ UNCHANGED <<tasks, bridge, call, conv, scope, boot, providers, ws_providers, weight_resolver, ws_weight_resolver,
                   sel, req>>

\* one iteration of the inner for_each: a store into the next cell
update_weights_store ==
    /\ upd.pc = "store"
    /\ LET chain == upd.order[upd.ci]
           last == upd.pi = Len(weight_resolver[chain])
       IN /\ \E r \in 0..MaxSample :
               LET v == r % WeightModulus
               IN /\ weight_resolver' = StoreWeight(weight_resolver, chain, upd.pi, v)
                  /\ ws_weight_resolver' =
                        WsTableOnStore(ws_weight_resolver, chain,
                                       weight_resolver[chain][upd.pi].kind, v)
                  /\ sel' = IF sel.pc = "load" /\ ~sel.ws /\ sel.key = chain
                            THEN [sel EXCEPT !.overlap = TRUE,
                                    !.zero_since = IF v > 0 THEN @ \ {upd.pi} ELSE @]
                            ELSE sel
                  /\ LET u == [upd EXCEPT !.stored = (<<chain, upd.pi>> :> v) @@ @]
                     IN upd' = IF ~last THEN [u EXCEPT !.pi = @ + 1]
                               ELSE IF upd.ci < Len(upd.order)
                                    THEN [u EXCEPT !.ci = @ + 1, !.pi = 1]
                                    ELSE [u EXCEPT !.pc = "query"]
    /\ UNCHANGED <<tasks, bridge, call, conv, scope, boot, providers, ws_providers, req>>

\* prometheus_client.query(..).get().await.unwrap(): the task panics on Err
update_weights_query ==
    /\ upd.pc = "query"
    /\ \E ok \in BOOLEAN :
         upd' = [upd EXCEPT !.pc = IF ok THEN "sleep" ELSE "dead",
                            !.order = <<>>, !.ci = 0, !.pi = 0]
    /\ UNCHANGED <<tasks, bridge, call, conv, scope, boot, providers, ws_providers, weight_resolver, ws_weight_resolver,
                   sel, req>>

(***************************************************************************)
(* Adapters: proxy and rate-limit classifiers.                             *)
(***************************************************************************)
\* what the upstream does with one forwarded request
Statuses == {200, 429}

Upstream ==
    {[transport |-> TRUE, status |-> 0]}
    \cup {[transport |-> FALSE, status |-> s] : s \in Statuses}

NoLabel == ""

\* Mutant: a chain that is not in the adapter's map is given the label of
\* Ethereum mainnet.
AdapterLookup_Default(adapter, chain) ==
    LET key == IF adapter.kind = "Publicnode" THEN to_lowercase(chain) ELSE chain
    IN IF key \in DOMAIN adapter.supported_chains
       THEN adapter.supported_chains[key]
       ELSE "mainnet"

\* self.supported_chains.get(..): the upstream label of the chain, or NoLabel.
\* PublicnodeProvider looks up query_params.chain_id.to_lowercase(), the other
\* HTTP adapters chain_id as given.
AdapterLookup(adapter, chain) ==
    LET key == IF adapter.kind = "Publicnode" THEN to_lowercase(chain) ELSE chain
    IN IF key \in DOMAIN adapter.supported_chains
       THEN adapter.supported_chains[key]
       ELSE NoLabel

\* Mutant: Publicnode hands a 429 on like any other upstream response.
AdapterProxy_NoThrottle(adapter, chain, upstream) ==
    IF AdapterLookup(adapter, chain) = NoLabel
    THEN [ok |-> FALSE, err |-> "ChainNotFound", from |-> adapter.kind, status |-> 0]
    ELSE IF upstream.transport
    THEN [ok |-> FALSE, err |-> "Transport", from |-> adapter.kind, status |-> 0]
    ELSE [ok |-> TRUE, err |-> "", from |-> adapter.kind, status |-> upstream.status]

\* RpcProvider::proxy of the adapter registered under `kind`
AdapterProxy(adapter, chain, upstream) ==
    IF AdapterLookup(adapter, chain) = NoLabel
    THEN [ok |-> FALSE, err |-> "ChainNotFound", from |-> adapter.kind, status |-> 0]
    ELSE IF upstream.transport
    THEN [ok |-> FALSE, err |-> "Transport", from |-> adapter.kind, status |-> 0]
    ELSE IF adapter.kind = "Publicnode" /\ upstream.status = 429
    THEN [ok |-> FALSE, err |-> "Throttled", from |-> adapter.kind, status |-> 0]
    ELSE [ok |-> TRUE, err |-> "", from |-> adapter.kind, status |-> upstream.status]

\* InfuraWsProvider::proxy: self.supported_chains.get(&chain_id.to_lowercase())
WsAdapterLookup(adapter, chain) ==
    IF to_lowercase(chain) \in DOMAIN adapter.supported_chains
    THEN adapter.supported_chains[to_lowercase(chain)]
    ELSE NoLabel

\* The handler calls proxy of the adapter the selector returned, with the
\* request's chain id: the adapter's lookup of the chain in its own map.
provider_proxy ==
    /\ sel.pc = "returned"
    /\ sel.outcome \in ProviderKind
    /\ LET adapter == ProviderMap(sel.ws)[sel.outcome]
           label == IF sel.ws THEN WsAdapterLookup(adapter, sel.chain)
                    ELSE AdapterLookup(adapter, sel.chain)
       IN sel' = [sel EXCEPT !.pc = IF label = NoLabel THEN "chain_not_found"
                                    ELSE "forwarding"]
    /\ UNCHANGED <<tasks, bridge, call, conv, scope, boot, providers, ws_providers, weight_resolver,
                   ws_weight_resolver, upd, req>>

\* the adapter's proxy has returned to the handler
ProxyReturn ==
    /\ sel.pc \in {"chain_not_found", "forwarding"}
    /\ sel' = NoSel
    /\ UNCHANGED <<tasks, bridge, call, conv, scope, boot, providers, ws_providers, weight_resolver,
                   ws_weight_resolver, upd, req>>

\* the handler has taken an answer that names no adapter (None, or the panic)
SelectFails ==
    /\ sel.outcome \notin ProviderKind
    /\ SelectReturn

\* Mutant: every adapter takes 429 as the rate-limit signal.
is_rate_limited_Only429(kind, status) ==
    CASE kind = "Pokt" -> FALSE
      [] OTHER -> status = 429

\* RateLimited::is_rate_limited of each adapter
is_rate_limited(kind, status) ==
    CASE kind = "Pokt" -> FALSE
      [] kind = "Binance" -> status = 403
      [] kind = "Infura" -> status = 429
      [] kind = "ZKSync" -> status = 429
      [] kind = "Publicnode" -> status = 429
      [] kind = "Omniatech" -> status = 429

(***************************************************************************)
(* Dispatcher (spec.md 4.5).                                               *)
(***************************************************************************)
MAX_ATTEMPTS == 2

NoMetric == [k \in ProviderKind |-> 0]

\* tried, attempt: the request context. calls, throttled, failed: the upstream
\* calls made for the request, the providers that gave a rate-limit signal and
\* those that failed by transport. The last four fields count the metrics the
\* request emitted, by provider.
NoReq == [pc |-> "idle", chain |-> "", tried |-> {}, attempt |-> 0,
          kind |-> "", calls |-> 0, result |-> "", from |-> "", status |-> 0,
          throttled |-> {}, failed |-> {},
          rate_limited_call |-> NoMetric, status_code |-> NoMetric,
          latency |-> NoMetric, finished_call |-> NoMetric]

Done(result) == [req EXCEPT !.pc = "done", !.result = result]

\* step 1 and the first step 2: tried := {}, attempt := 0, Select(chain, tried)
ProxyStart ==
    /\ Booted
    /\ req.pc = "idle"
    /\ \E chain \in ChainIds :
         /\ req' = [NoReq EXCEPT !.pc = "select", !.chain = chain]
         /\ sel' = StartSelection(FALSE, chain, {})
    /\ UNCHANGED <<tasks, bridge, call, conv, scope, boot, providers, ws_providers, weight_resolver, ws_weight_resolver, upd>>

\* step 2: the selector's answer
ProxyOnSelect ==
    /\ req.pc = "select"
    /\ sel.pc = "returned"
    /\ req' = CASE sel.outcome = "Panic" -> Done("Panic")
                [] sel.outcome = "None" /\ req.tried = {} -> Done("ChainNotSupported")
                [] sel.outcome = "None" /\ req.tried # {} -> Done("AllProvidersThrottled")
                [] OTHER -> [req EXCEPT !.pc = "call", !.kind = sel.outcome]
    /\ sel' = NoSel
    /\ UNCHANGED <<tasks, bridge, call, conv, scope, boot, providers, ws_providers, weight_resolver, ws_weight_resolver, upd>>

\* Mutant: the Dispatcher selects again when attempt has reached MAX_ATTEMPTS.
AttemptsLeft_Inclusive(attempt) == attempt <= MAX_ATTEMPTS

\* step 4: if attempt < MAX_ATTEMPTS go to 2
AttemptsLeft(attempt) == attempt < MAX_ATTEMPTS

\* Mutant: the status code of a rate-limited answer is counted as well.
ThrottleMetric_WithStatus(r, kind) ==
    [r EXCEPT !.rate_limited_call[kind] = @ + 1, !.status_code[kind] = @ + 1]

\* step 5: emit a throttle metric
ThrottleMetric(r, kind) == [r EXCEPT !.rate_limited_call[kind] = @ + 1]

\* step 6: emit success metrics (status code, provider, latency)
SuccessMetrics(r, kind) ==
    [r EXCEPT !.status_code[kind] = @ + 1,
              !.latency[kind] = @ + 1,
              !.finished_call[kind] = @ + 1]

\* steps 3 to 6: HttpProxy on the selected adapter, then the classification
ProxyAttempt ==
    /\ req.pc = "call"
    /\ req.calls < MaxCalls
    /\ \E upstream \in Upstream :
         LET r == AdapterProxy(providers[req.kind], req.chain, upstream)
             called == [req EXCEPT !.calls = @ + 1]
             again == [called EXCEPT !.pc = "select", !.tried = @ \cup {req.kind}]
         IN IF ~r.ok /\ r.err = "ChainNotFound"
            THEN /\ req' = [called EXCEPT !.pc = "done", !.result = "ChainNotFound"]
                 /\ sel' = sel
            ELSE IF ~r.ok /\ r.err = "Transport"
            THEN IF AttemptsLeft(req.attempt + 1)
                 THEN /\ req' = [again EXCEPT !.attempt = @ + 1,
                                              !.failed = @ \cup {req.kind}]
                      /\ sel' = StartSelection(FALSE, req.chain, req.tried \cup {req.kind})
                 ELSE /\ req' = [again EXCEPT !.attempt = @ + 1, !.pc = "done",
                                              !.failed = @ \cup {req.kind},
                                              !.result = "AllProvidersFailed"]
                      /\ sel' = sel
            ELSE IF (~r.ok /\ r.err = "Throttled")
                    \/ (r.ok /\ is_rate_limited(req.kind, r.status))
            THEN /\ req' = ThrottleMetric([again EXCEPT !.throttled = @ \cup {req.kind}],
                                          req.kind)
                 /\ sel' = StartSelection(FALSE, req.chain, req.tried \cup {req.kind})
            ELSE /\ req' = SuccessMetrics([called EXCEPT !.pc = "done",
                                              !.result = "Response",
                                              !.from = r.from, !.status = r.status],
                                          req.kind)
                 /\ sel' = sel
    /\ UNCHANGED <<tasks, bridge, call, conv, scope, boot, providers, ws_providers, weight_resolver, ws_weight_resolver, upd>>

\* the request task ends; the next request can be taken up
RequestEnd ==
    /\ req.pc = "done"
    /\ req' = NoReq
    /\ UNCHANGED <<tasks, bridge, call, conv, scope, boot, providers, ws_providers, weight_resolver, ws_weight_resolver,
                   upd, sel>>

(***************************************************************************)
(* WS bridge: ws::proxy (src/src/ws.rs).                                   *)
(* The "write" relay forwards client -> provider, the "read" relay         *)
(* provider -> client. Messages are the data frames 1..MaxFrames and the   *)
(* close frame.                                                            *)
(***************************************************************************)
\* data frames the client sends on one connection
MaxFrames == 3

CloseFrame == 0

Directions == {"write", "read"}

NoBridge == [pc |-> "idle",
             \* messages arrived on the source socket of each relay, not yet read
             inbox |-> [d \in Directions |-> <<>>],
             \* how the source stream of each relay ends once its inbox is drained
             ending |-> [d \in Directions |-> ""],
             \* Forward.buffered_item of each relay
             buffered |-> [d \in Directions |-> <<>>],
             \* the messages each relay read from its stream and wrote to its sink
             taken |-> [d \in Directions |-> <<>>],
             delivered |-> [d \in Directions |-> <<>>],
             sent |-> 0, echoed |-> 0,
             \* the relay whose end ended the select!
             died |-> "",
             client_ws |-> "none", provider_ws |-> "none"]

\* InfuraWsProvider::proxy: connect_async succeeded and the upgrade is served
\* by ws::proxy, which splits both sockets and builds the two relays
ws_proxy ==
    /\ bridge.pc = "idle"
    /\ bridge' = [bridge EXCEPT !.pc = "running", !.client_ws = "open",
                                !.provider_ws = "open"]
    /\ UNCHANGED <<tasks, repo, call, conv>>

\* the client sends its next data frame
ClientSend ==
    /\ bridge.pc = "running"
    /\ bridge.ending["write"] = ""
    /\ bridge.sent < MaxFrames
    /\ bridge' = [bridge EXCEPT !.sent = @ + 1,
                                !.inbox["write"] = Append(@, bridge.sent + 1)]
    /\ UNCHANGED <<tasks, repo, call, conv>>

\* the upstream echoes the next data frame it was delivered
ProviderEcho ==
    /\ bridge.pc = "running"
    /\ bridge.ending["read"] = ""
    /\ bridge.echoed < Len(bridge.delivered["write"])
    /\ LET m == bridge.delivered["write"][bridge.echoed + 1]
       IN bridge' = [bridge EXCEPT !.echoed = @ + 1,
                       !.inbox["read"] = IF m = CloseFrame THEN @ ELSE Append(@, m)]
    /\ UNCHANGED <<tasks, repo, call, conv>>

\* the peer behind the source of relay d goes away: its socket closes (EOF),
\* fails, or it sends a close frame and then closes
PeerEnds(d) ==
    /\ bridge.pc = "running"
    /\ bridge.ending[d] = ""
    /\ \E how \in {"eof", "error", "close"} :
         bridge' = [bridge EXCEPT
                      !.ending[d] = IF how = "close" THEN "eof" ELSE how,
                      !.inbox[d] = IF how = "close" THEN Append(@, CloseFrame) ELSE @]
    /\ UNCHANGED <<tasks, repo, call, conv>>

\* Mutant: the relay that ended is awaited alone; the other one keeps running.
select_Join(b, d) == [b EXCEPT !.died = d]

\* select! { _ = read => .., _ = write => .. }: relay d completed, proxy returns
\* and drops both relays with the socket halves they own
select(b, d) ==
    [b EXCEPT !.pc = "ended", !.died = d,
              !.client_ws = "closed", !.provider_ws = "closed"]

\* Mutant: the item is written to the sink twice.
start_send_Twice(delivered, item) == Append(Append(delivered, item), item)

\* Forward: sink.start_send(item), the item leaves the relay
start_send(delivered, item) == Append(delivered, item)

\* Forward::poll with no buffered item: stream.poll_next gives the next
\* message, or the end of the stream (None, or Some(Err)), which completes
\* the relay
ForwardPoll(d) ==
    /\ bridge.pc = "running"
    /\ bridge.buffered[d] = <<>>
    /\ IF bridge.inbox[d] # <<>>
       THEN bridge' = [bridge EXCEPT !.inbox[d] = Tail(@),
                                     !.buffered[d] = <<Head(bridge.inbox[d])>>,
                                     !.taken[d] = Append(@, Head(bridge.inbox[d]))]
       ELSE /\ bridge.ending[d] # ""
            /\ bridge' = select(bridge, d)
    /\ UNCHANGED <<tasks, repo, call, conv>>

\* Forward::poll with a buffered item: sink.poll_ready and start_send; the
\* write can fail once the peer behind the sink has gone away
ForwardSend(d) ==
    /\ bridge.pc = "running"
    /\ bridge.buffered[d] # <<>>
    /\ LET sink == IF d = "write" THEN "read" ELSE "write"
       IN \/ bridge' = [bridge EXCEPT
                          !.buffered[d] = <<>>,
                          !.delivered[d] = start_send(@, bridge.buffered[d][1])]
          \/ /\ bridge.ending[sink] # ""
             /\ bridge' = select(bridge, d)
    /\ UNCHANGED <<tasks, repo, call, conv>>

(***************************************************************************)
(* Adapter exchange: one call of RpcProvider::proxy with the bodies it     *)
(* carries, and the rate-limit classifier on the response.                 *)
(* A body is a sequence of chunks, a chunk a sequence of bytes.            *)
(***************************************************************************)
\* the HTTP adapters of src/src/providers
AdapterKinds == {"Infura", "Pokt", "Binance", "ZKSync", "Publicnode"}

\* The Binance and ZKSync catalogs (not part of src/): one chain each.
BinanceCatalog ==
    ("eip155:56" :> [label |-> "https://bsc-dataseed.binance.org/", priority |-> "Normal"])

ZKSyncCatalog ==
    ("eip155:324" :> [label |-> "https://mainnet.era.zksync.io", priority |-> "Normal"])

\* provider_config.supported_chains, as RpcProviderFactory::new reads it
AdapterCatalog(kind) ==
    CASE kind = "Pokt" -> PoktChains
      [] kind = "Publicnode" -> PublicnodeChains
      [] kind = "Infura" -> InfuraChains
      [] kind = "Binance" -> BinanceCatalog
      [] kind = "ZKSync" -> ZKSyncCatalog

\* the chain ids explored as query parameter
AdapterChainIds ==
    {"eip155:1", "EIP155:1", "eip155:56", "eip155:324", "eip155:137", UnknownChain}

\* the upstream statuses explored
AdapterStatuses == {200, 400, 403, 429, 500}

\* the JSON-RPC error code Pokt answers a rate-limited request with
POKT_RATE_LIMITED == -32068

\* the bytes of a JSON-RPC response whose error has the code -32068
PoktRateLimitedBytes == <<9, 3, 2, 0, 6, 8>>

\* serde_json::from_slice::<jsonrpc::Response>(bytes): the error code, 0 if
\* the bytes carry no error
jsonrpc_error_code(bytes) ==
    IF bytes = PoktRateLimitedBytes THEN POKT_RATE_LIMITED ELSE 0

RequestBodies == {<<7>>, <<7, 8, 9>>}

UpstreamBodies == {<<>>, <<<<1, 2>>>>, <<<<1>>, <<2, 3>>>>,
                   <<PoktRateLimitedBytes>>, <<<<9, 3, 2>>, <<0, 6, 8>>>>}

\* what the upstream does with one forwarded request, body included
UpstreamAnswers ==
    {[transport |-> TRUE, status |-> 0, chunks |-> <<>>]}
    \cup {[transport |-> FALSE, status |-> st, chunks |-> b] :
             st \in AdapterStatuses, b \in UpstreamBodies}

\* hyper::body::Body::from(body), reqwest .body(body): the request body as
\* one chunk
BodyFrom(bytes) == <<bytes>>

RECURSIVE to_bytes(_)
\* response.bytes(): the chunks of a body, concatenated
to_bytes(chunks) ==
    IF chunks = <<>> THEN <<>> ELSE Head(chunks) \o to_bytes(Tail(chunks))

\* Mutant: the body of an upstream error status is replaced by an empty one.
IntoResponse_ErrorBody(kind, upstream) ==
    IF upstream.status >= 400
    THEN [status |-> upstream.status, chunks |-> <<>>]
    ELSE [status |-> upstream.status, chunks |-> upstream.chunks]

\* The Response an adapter returns for the upstream's response:
\* BinanceProvider reads the whole body and builds (status, body).into_response(),
\* the other adapters hand on the upstream response with .into_response().
IntoResponse(kind, upstream) ==
    IF kind = "Binance"
    THEN [status |-> upstream.status, chunks |-> <<to_bytes(upstream.chunks)>>]
    ELSE [status |-> upstream.status, chunks |-> upstream.chunks]

NoResponse == [status |-> 0, chunks |-> <<>>]

\* RateLimited::is_rate_limited on a response: the verdict, and the response
\* as the call leaves it
Classify(kind, response) ==
    [limited |-> is_rate_limited(kind, response.status), response |-> response]

NoCall == [pc |-> "idle", kind |-> "", chain |-> "", body |-> <<>>,
           forwarded |-> FALSE, sent |-> <<>>,
           upstream |-> [transport |-> FALSE, status |-> 0, chunks |-> <<>>],
           ok |-> FALSE, err |-> "", response |-> NoResponse,
           limited |-> FALSE, classified |-> NoResponse]

\* RpcProvider::proxy: chain lookup, the request sent upstream, the upstream's
\* answer, and the Response (or the error) the adapter returns
rpc_proxy ==
    /\ call.pc = "idle"
    /\ \E kind \in AdapterKinds, chain \in AdapterChainIds,
          body \in RequestBodies, upstream \in UpstreamAnswers :
         LET adapter == NewAdapter(kind, AdapterCatalog(kind))
             r == AdapterProxy(adapter, chain, upstream)
             found == AdapterLookup(adapter, chain) # NoLabel
         IN call' = [NoCall EXCEPT
                       !.pc = "proxied", !.kind = kind, !.chain = chain,
                       !.body = body,
                       !.forwarded = found,
                       !.sent = IF found THEN BodyFrom(body) ELSE <<>>,
                       !.upstream = IF found THEN upstream ELSE @,
                       !.ok = r.ok, !.err = r.err,
                       !.response = IF r.ok THEN IntoResponse(kind, upstream) ELSE @]
    /\ UNCHANGED <<tasks, repo, bridge, conv>>

\* is_rate_limited on the response of the call: on the Response the adapter
\* returned, and for Publicnode on the upstream's response inside proxy
classify ==
    /\ call.pc = "proxied"
    /\ call.forwarded
    /\ ~call.upstream.transport
    /\ LET given == IF call.ok THEN call.response
                    ELSE [status |-> call.upstream.status,
                          chunks |-> call.upstream.chunks]
           c == Classify(call.kind, given)
       IN call' = [call EXCEPT !.pc = "classified", !.response = given,
                               !.limited = c.limited, !.classified = c.response]
    /\ UNCHANGED <<tasks, repo, bridge, conv>>

\* the outcomes of connect_async: the connection fails, or the upstream
\* switches protocols
WsUpstream ==
    {[transport |-> TRUE, status |-> 0, chunks |-> <<>>],
     [transport |-> FALSE, status |-> 101, chunks |-> <<>>]}

\* RpcWsProvider::proxy of InfuraWsProvider: chain lookup, connect_async to the
\* upstream, and the upgrade response
InfuraWs_proxy ==
    /\ call.pc = "idle"
    /\ \E chain \in AdapterChainIds, upstream \in WsUpstream :
         LET adapter == NewAdapter("Infura", InfuraWsChains)
             found == WsAdapterLookup(adapter, chain) # NoLabel
         IN call' = [NoCall EXCEPT
                       !.pc = "upgrading", !.kind = "InfuraWs", !.chain = chain,
                       !.forwarded = found,
                       !.upstream = IF found THEN upstream ELSE @,
                       !.ok = found /\ ~upstream.transport,
                       !.err = IF ~found THEN "ChainNotFound"
                               ELSE IF upstream.transport THEN "Transport" ELSE ""]
    /\ UNCHANGED <<tasks, repo, bridge, conv>>

\* the exchange is over
CallEnd ==
    /\ call.pc \in {"proxied", "classified", "upgrading"}
    /\ call' = NoCall
    /\ UNCHANGED <<tasks, repo, bridge, conv>>

(***************************************************************************)
(* ENSIP-11 coin types (src/src/utils/crypto.rs).                          *)
(* A u32 is kept as its two 16-bit halves, [hi, lo] for hi * 2^16 + lo.    *)
(***************************************************************************)
HalfBits == 16

Half == 2^HalfBits

U32(hi, lo) == [hi |-> hi, lo |-> lo]

RECURSIVE BitOr(_, _, _)
\* a | b on n-bit values
BitOr(a, b, n) ==
    IF n = 0 THEN 0
    ELSE (IF a % 2 = 1 \/ b % 2 = 1 THEN 1 ELSE 0)
         + 2 * BitOr(a \div 2, b \div 2, n - 1)

RECURSIVE BitAnd(_, _, _)
\* a & b on n-bit values
BitAnd(a, b, n) ==
    IF n = 0 THEN 0
    ELSE (IF a % 2 = 1 /\ b % 2 = 1 THEN 1 ELSE 0)
         + 2 * BitAnd(a \div 2, b \div 2, n - 1)

\* 0x80000000
COIN_TYPE_FLAG == U32(2^15, 0)

\* 0x7FFFFFFF
CHAIN_ID_MASK == U32(2^15 - 1, 2^16 - 1)

\* convert_evm_chain_id_to_coin_type: 0x80000000 | chain_id
convert_evm_chain_id_to_coin_type(chain_id) ==
    U32(BitOr(COIN_TYPE_FLAG.hi, chain_id.hi, HalfBits),
        BitOr(COIN_TYPE_FLAG.lo, chain_id.lo, HalfBits))

\* Mutant: the mask 0x3FFFFFFF.
convert_coin_type_to_evm_chain_id_Mask30(coin_type) ==
    U32(BitAnd(2^14 - 1, coin_type.hi, HalfBits),
        BitAnd(CHAIN_ID_MASK.lo, coin_type.lo, HalfBits))

\* convert_coin_type_to_evm_chain_id: 0x7FFFFFFF & coin_type
convert_coin_type_to_evm_chain_id(coin_type) ==
    U32(BitAnd(CHAIN_ID_MASK.hi, coin_type.hi, HalfBits),
        BitAnd(CHAIN_ID_MASK.lo, coin_type.lo, HalfBits))

\* the u32 values explored as chain id: below and from 2^31
EvmChainIds ==
    {U32(hi, lo) : hi \in {0, 1, 2^14, 2^15 - 1, 2^15, 2^16 - 1},
                   lo \in {0, 1, 10, 56, 137, 324, 17000, 2^15, 2^16 - 2, 2^16 - 1}}

NoConv == [pc |-> "idle", chain_id |-> U32(0, 0), coin_type |-> U32(0, 0),
           restored |-> U32(0, 0)]

\* a caller converts a chain id to its coin type
to_coin_type ==
    /\ conv.pc = "idle"
    /\ \E chain_id \in EvmChainIds :
         conv' = [NoConv EXCEPT !.pc = "coin_type", !.chain_id = chain_id,
                    !.coin_type = convert_evm_chain_id_to_coin_type(chain_id)]
    /\ UNCHANGED <<tasks, repo, bridge, call>>

\* and converts the coin type back
to_chain_id ==
    /\ conv.pc = "coin_type"
    /\ conv' = [conv EXCEPT !.pc = "chain_id",
                  !.restored = convert_coin_type_to_evm_chain_id(conv.coin_type)]
    /\ UNCHANGED <<tasks, repo, bridge, call>>

ConvEnd ==
    /\ conv.pc = "chain_id"
    /\ conv' = NoConv
    /\ UNCHANGED <<tasks, repo, bridge, call>>

(***************************************************************************)
(* Profile attributes handler (src/src/handlers/profile/attributes.rs).    *)
(***************************************************************************)
\* the addresses explored: two well-formed ones, and a string that
\* H160::from_str rejects
Addresses == {"0xA", "0xB"}

BadAddress == "zz"

\* The request: whether message parses as UpdateAttributesPayload, whether
\* coin_type is one of Eip155SupportedChains, whether the payload's timestamp
\* is within UNIXTIMESTAMP_SYNC_THRESHOLD, whether check_attributes accepts the
\* attributes, the address field, and the signer recovered from the signature
\* ("malformed": verify_message_signature fails).
ProfileRequests ==
    [parses : BOOLEAN, coin_type_ok : BOOLEAN, timestamp_ok : BOOLEAN,
     attributes_ok : BOOLEAN, address : Addresses \cup {BadAddress},
     signer : Addresses \cup {"malformed"}]

\* the name's row: get_name_and_addresses_by_name fails (not registered), or
\* gives the addresses, whose entry for coin type 60 may be missing
NameRows ==
    [registered : {FALSE}, address60 : {"none"}]
    \cup [registered : {TRUE}, address60 : Addresses \cup {BadAddress, "none"}]

\* the checks of handler_internal, in program order
ProfileChecks ==
    <<"message", "coin_type", "name", "timestamp", "address", "signature",
      "owner_entry", "owner", "attributes">>

\* what the handler returns when the check fails
ProfileError(check) ==
    CASE check = "message" -> "SerdeJson"
      [] check = "coin_type" -> "UnsupportedCoinType"
      [] check = "name" -> "NameNotRegistered"
      [] check = "timestamp" -> "ExpiredTimestamp"
      [] check = "address" -> "InvalidAddress"
      [] check = "signature" -> "SignatureValidationError"
      [] check = "owner_entry" -> "AddressEntryNotFound"
      [] check = "owner" -> "NameOwnerValidationError"
      [] check = "attributes" -> "UnsupportedNameAttribute"

\* Mutant: the owner of the name is not compared with the payload address.
ProfilePasses_AnyOwner(request, row, check) ==
    CASE check = "message" -> request.parses
      [] check = "coin_type" -> request.coin_type_ok
      [] check = "name" -> row.registered
      [] check = "timestamp" -> request.timestamp_ok
      [] check = "address" -> request.address \in Addresses
      [] check = "signature" -> request.signer = request.address
      [] check = "owner_entry" -> row.address60 \in Addresses
      [] check = "owner" -> TRUE
      [] check = "attributes" -> request.attributes_ok

\* whether the check lets the handler go on
ProfilePasses(request, row, check) ==
    CASE check = "message" -> request.parses
      [] check = "coin_type" -> request.coin_type_ok
      [] check = "name" -> row.registered
      [] check = "timestamp" -> request.timestamp_ok
      [] check = "address" -> request.address \in Addresses
      [] check = "signature" -> request.signer = request.address
      [] check = "owner_entry" -> row.address60 \in Addresses
      [] check = "owner" -> request.address = row.address60
      [] check = "attributes" -> request.attributes_ok

\* the index of the first check that fails, 0 if none does
FirstFailed(request, row) ==
    LET failed == {i \in 1..Len(ProfileChecks) :
                     ~ProfilePasses(request, row, ProfileChecks[i])}
    IN IF failed = {} THEN 0
       ELSE CHOOSE i \in failed : \A j \in failed : i <= j

\* request, row: the inputs; evaluated: the checks made, in order; result: what
\* the handler returned; update_called: whether update_name_attributes was
\* called; attributes: the name's attributes in the database, "old" before the
\* call, "new" the payload's.
NoProfile == [pc |-> "idle",
              request |-> [parses |-> FALSE, coin_type_ok |-> FALSE,
                           timestamp_ok |-> FALSE, attributes_ok |-> FALSE,
                           address |-> BadAddress, signer |-> "malformed"],
              row |-> [registered |-> FALSE, address60 |-> "none"],
              evaluated |-> <<>>, result |-> "", update_called |-> FALSE,
              attributes |-> "old"]

\* handler_internal: the checks up to the first that fails, then
\* update_name_attributes, which writes or fails
profile_handler ==
    /\ profile.pc = "idle"
    /\ \E request \in ProfileRequests, row \in NameRows, db_ok \in BOOLEAN :
         LET f == FirstFailed(request, row)
         IN profile' =
              [pc |-> "done", request |-> request, row |-> row,
               evaluated |-> IF f = 0 THEN ProfileChecks ELSE SubSeq(ProfileChecks, 1, f),
               result |-> IF f # 0 THEN ProfileError(ProfileChecks[f])
                          ELSE IF db_ok THEN "Ok" ELSE "InternalServerError",
               update_called |-> f = 0,
               attributes |-> IF f = 0 /\ db_ok THEN "new" ELSE "old"]
    /\ UNCHANGED <<repo, bridge, call, conv, ca, project>>

\* the response is sent; the next request is taken up
ProfileEnd ==
    /\ profile.pc = "done"
    /\ profile' = NoProfile
    /\ UNCHANGED <<repo, bridge, call, conv, ca, project>>

(***************************************************************************)
(* Chain-agnostic check handler (src/src/handlers/chain_agnostic/check.rs).*)
(***************************************************************************)
\* the answer of a balance query that failed
QueryFailed == -1

\* transaction.value that U256::from_dec_str rejects
InvalidValue == -1

\* what transaction.data is: the call data of an ERC20 transfer, of another
\* ERC20 function, bytes decode_erc20_call_function_data rejects, or a string
\* hex::decode rejects
TransactionData == {"transfer", "approve", "unknown", "not_hex"}

\* BRIDGING_AVAILABLE_ASSETS, flattened in the order of its entries: the
\* (asset, chain) pairs whose balance the handler may query
BridgingAssets ==
    <<[asset |-> "USDC", chain |-> "eip155:10"],
      [asset |-> "USDC", chain |-> "eip155:8453"]>>

\* The request and what the queries made for it would answer.
CheckInputs ==
    [access : BOOLEAN, from_ok : BOOLEAN,
     native : {QueryFailed} \cup 0..MaxBalance,
     value : {InvalidValue} \cup 0..MaxBalance,
     data : TransactionData,
     bridging : [1..Len(BridgingAssets) -> {QueryFailed} \cup 0..MaxBalance]]

\* Mutant: a balance equal to the transfer value is taken as sufficient.
Sufficient_OrEqual(balance, value) == balance >= value

\* native_token_balance > transfer_value, erc20_balance > transfer_value
Sufficient(balance, value) == balance > value

\* the for loops over BRIDGING_AVAILABLE_ASSETS: the number of balances
\* queried, and the query that ended the loop (0: none did)
BridgingScan(bridging, value) ==
    LET stops == {i \in DOMAIN bridging :
                    bridging[i] = QueryFailed \/ Sufficient(bridging[i], value)}
        stop == IF stops = {} THEN 0
                ELSE CHOOSE i \in stops : \A j \in stops : i <= j
    IN [stop |-> stop, queried |-> IF stop = 0 THEN Len(bridging) ELSE stop]

\* the balance queries of a call: the native one, then `n` bridging ones
Queries(n) == <<"native">> \o [i \in 1..n |-> BridgingAssets[i].chain]

\* handler_internal: the result ("true" and "false" are the answers of
\* requires_multi_chain, the others errors) and the balance queries made
check_handler(in) ==
    LET scan == BridgingScan(in.bridging, in.value)
    IN CASE ~in.access -> [result |-> "AccessDenied", queries |-> <<>>]
         [] in.access /\ ~in.from_ok -> [result |-> "InvalidAddress", queries |-> <<>>]
         [] in.access /\ in.from_ok /\ in.native = QueryFailed ->
                [result |-> "QueryError", queries |-> Queries(0)]
         [] in.access /\ in.from_ok /\ in.native # QueryFailed
              /\ in.value = InvalidValue ->
                [result |-> "InvalidValue", queries |-> Queries(0)]
         [] OTHER ->
                IF Sufficient(in.native, in.value)
                THEN [result |-> "false", queries |-> Queries(0)]
                ELSE IF in.data = "not_hex"
                THEN [result |-> "WrongHexFormat", queries |-> Queries(0)]
                ELSE IF in.data = "unknown"
                THEN [result |-> "DecodeError", queries |-> Queries(0)]
                ELSE IF in.data # "transfer"
                THEN [result |-> "false", queries |-> Queries(0)]
                ELSE [result |-> IF scan.stop = 0 THEN "false"
                                 ELSE IF in.bridging[scan.stop] = QueryFailed
                                      THEN "QueryError" ELSE "true",
                      queries |-> Queries(scan.queried)]

NoCheck == [pc |-> "idle",
            in |-> [access |-> FALSE, from_ok |-> FALSE, native |-> QueryFailed,
                    value |-> InvalidValue, data |-> "not_hex",
                    bridging |-> [i \in 1..Len(BridgingAssets) |-> QueryFailed]],
            result |-> "", queries |-> <<>>]

\* one call of the handler
ca_check ==
    /\ ca.pc = "idle"
    /\ \E in \in CheckInputs :
         ca' = [pc |-> "done", in |-> in, result |-> check_handler(in).result,
                queries |-> check_handler(in).queries]
    /\ UNCHANGED <<repo, bridge, call, conv, profile, project>>

\* the response is sent; the next request is taken up
CheckEnd ==
    /\ ca.pc = "done"
    /\ ca' = NoCheck
    /\ UNCHANGED <<repo, bridge, call, conv, profile, project>>

(***************************************************************************)
(* Project data cache: ProjectStorage (src/src/project/storage/mod.rs).    *)
(***************************************************************************)
ProjectIds == {"p1", "p2"}

\* the project data explored; NoData: the cache has no entry for the key
ProjectData == {"d1", "d2"}

NoData == "none"

\* format!("project-data/{id}")
build_cache_key(id) == "project-data/" \o id

CacheKeys == {build_cache_key(id) : id \in ProjectIds}

\* Mutant: set awaits the cache write.
storage_set_Await(p, id, data) ==
    [p EXCEPT !.cache[build_cache_key(id)] = data]

\* ProjectStorage::set: tokio::spawn of the cache write; nothing is awaited
storage_set(p, id, data) ==
    [p EXCEPT !.pending = Append(@, [key |-> build_cache_key(id), data |-> data])]

\* cache: the key-value storage; pending: the cache writes spawned and not yet
\* run, in the order of their spawning; returned: what the last call gave its caller; last_set: the last set,
\* the cache content for its key when it returned, and whether no other write
\* for the key was pending then; saw: what the fetches of that id have
\* observed since; warned: a cache write has failed.
NoProject == [cache |-> [k \in CacheKeys |-> NoData], pending |-> <<>>,
              returned |-> "",
              last_set |-> [id |-> "", data |-> NoData, prev |-> NoData, alone |-> FALSE],
              saw |-> {}, warned |-> FALSE]

\* a call of set(id, data), up to its return
Set ==
    /\ Len(project.pending) < MaxPending
    /\ \E id \in ProjectIds, data \in ProjectData :
         project' = [storage_set(project, id, data) EXCEPT
                       !.returned = "()",
                       !.last_set = [id |-> id, data |-> data,
                                     prev |-> project.cache[build_cache_key(id)],
                                     alone |-> \A i \in 1..Len(project.pending) :
                                                  project.pending[i].key
                                                     # build_cache_key(id)],
                       !.saw = {}]
    /\ UNCHANGED <<repo, bridge, call, conv, profile, ca>>

\* one of the spawned tasks runs: cache.set_serialized(..).await, its error
\* logged and dropped
CacheWrite ==
    /\ \E i \in 1..Len(project.pending), ok \in BOOLEAN :
         LET w == project.pending[i]
         IN project' = [project EXCEPT
                          !.pending = SubSeq(@, 1, i - 1) \o SubSeq(@, i + 1, Len(@)),
                          !.cache = IF ok THEN [@ EXCEPT ![w.key] = w.data] ELSE @,
                          !.warned = @ \/ ~ok]
    /\ UNCHANGED <<repo, bridge, call, conv, profile, ca>>

\* a call of fetch(id): cache.get(&cache_key).await, its error handed on
Fetch ==
    /\ \E id \in ProjectIds, ok \in BOOLEAN :
         LET data == project.cache[build_cache_key(id)]
         IN project' = [project EXCEPT
                          !.returned = IF ok THEN data ELSE "StorageError",
                          !.saw = IF ok /\ id = project.last_set.id
                                  THEN @ \cup {data} ELSE @]
    /\ UNCHANGED <<repo, bridge, call, conv, profile, ca>>

(***************************************************************************)
(* Specification.                                                          *)
(***************************************************************************)
InitRepository ==
    /\ boot = 0
    /\ providers = EmptyMap
    /\ ws_providers = EmptyMap
    /\ weight_resolver = EmptyMap
    /\ ws_weight_resolver = EmptyMap
    /\ upd = NoUpd
    /\ sel = NoSel
    /\ req = NoReq
    /\ bridge = NoBridge
    /\ call = NoCall
    /\ conv = NoConv
    /\ profile = NoProfile
    /\ ca = NoCheck
    /\ project = NoProject

Init == scope \in Scopes /\ InitRepository

InitDispatch == scope \in DispatchScopes /\ InitRepository

\* ProviderRepository::add_provider, called by init_providers
add_provider ==
    /\ boot < Len(RegisterOrder)
    /\ LET kind == RegisterOrder[boot + 1]
       IN /\ providers' = InsertProvider(providers, kind,
                              NewAdapter(kind, supported_chains(kind)))
          /\ weight_resolver' = PushChains(weight_resolver, kind, supported_chains(kind))
    /\ boot' = boot + 1
    /\ UNCHANGED <<tasks, bridge, call, conv, scope, ws_providers, ws_weight_resolver, upd, sel, req>>

\* ProviderRepository::add_ws_provider, called by init_providers
add_ws_provider ==
    /\ boot >= Len(RegisterOrder)
    /\ boot < BootSteps
    /\ LET kind == WsRegisterOrder[boot - Len(RegisterOrder) + 1]
       IN /\ ws_providers' = InsertProvider(ws_providers, kind,
                                 NewAdapter(kind, supported_ws_chains(kind)))
          /\ ws_weight_resolver' =
                 PushChains(ws_weight_resolver, kind, supported_chains(kind))
    /\ boot' = boot + 1
    /\ UNCHANGED <<tasks, bridge, call, conv, scope, providers, weight_resolver, upd, sel, req>>

Boot ==
    \/ add_provider
    \/ add_ws_provider

Updater ==
    \/ update_weights_begin
    \/ update_weights_store
    \/ update_weights_query

\* Routing: registration, the updater, and selections on both tables.
Next ==
    \/ Boot
    \/ Updater
    \/ get_provider_for_chain_id
    \/ get_ws_provider_for_chain_id
    \/ SelectLoad
    \/ SelectSample
    \/ SelectReturn

Spec == Init /\ [][Next]_vars

\* Dispatch: registration, the updater, and requests through the Dispatcher.
NextDispatch ==
    \/ Boot
    \/ Updater
    \/ ProxyStart
    \/ ProxyOnSelect
    \/ SelectLoad
    \/ SelectSample
    \/ ProxyAttempt
    \/ RequestEnd

SpecDispatch == InitDispatch /\ [][NextDispatch]_vars

\* Failover: requests through the Dispatcher for a chain of four providers,
\* whose weights stay at their catalog values.
InitFailover == scope = "eip155:137" /\ InitRepository

NextFailover ==
    \/ Boot
    \/ ProxyStart
    \/ ProxyOnSelect
    \/ SelectLoad
    \/ SelectSample
    \/ ProxyAttempt
    \/ RequestEnd

SpecFailover == InitFailover /\ [][NextFailover]_vars

\* Handlers: registration, the updater, and selections on both tables, each
\* followed by proxy of the adapter returned.
InitHandlers == scope \in WsScopes /\ InitRepository

NextHandlers ==
    \/ Boot
    \/ Updater
    \/ get_provider_for_chain_id
    \/ get_ws_provider_for_chain_id
    \/ SelectLoad
    \/ SelectSample
    \/ SelectFails
    \/ provider_proxy
    \/ ProxyReturn

SpecHandlers == InitHandlers /\ [][NextHandlers]_vars

\* Adapter: exchanges of the HTTP and WS adapters with their upstreams.
InitAdapter == scope = "eip155:1" /\ InitRepository

NextAdapter ==
    \/ rpc_proxy
    \/ InfuraWs_proxy
    \/ classify
    \/ CallEnd

SpecAdapter == InitAdapter /\ [][NextAdapter]_vars

\* Coin types: a conversion to the coin type and back.
InitCoinType == scope = "eip155:1" /\ InitRepository

NextCoinType ==
    \/ to_coin_type
    \/ to_chain_id
    \/ ConvEnd

SpecCoinType == InitCoinType /\ [][NextCoinType]_vars

\* Profile: calls of the profile attributes handler.
InitProfile == scope = "eip155:1" /\ InitRepository

NextProfile ==
    \/ profile_handler
    \/ ProfileEnd

SpecProfile == InitProfile /\ [][NextProfile]_vars

\* Check: calls of the chain-agnostic check handler.
InitCheck == scope = "eip155:1" /\ InitRepository

NextCheck ==
    \/ ca_check
    \/ CheckEnd

SpecCheck == InitCheck /\ [][NextCheck]_vars

\* Storage: calls of ProjectStorage::set and fetch, and the spawned writes.
InitStorage == scope = "eip155:1" /\ InitRepository

NextStorage ==
    \/ Set
    \/ CacheWrite
    \/ Fetch

SpecStorage == InitStorage /\ [][NextStorage]_vars

\* Bridge: one WS connection, from the upgrade to the end of ws::proxy.
InitBridge == scope = "eip155:1" /\ InitRepository

NextBridge ==
    \/ ws_proxy
    \/ ClientSend
    \/ ProviderEcho
    \/ \E d \in Directions : PeerEnds(d)
    \/ \E d \in Directions : ForwardPoll(d)
    \/ \E d \in Directions : ForwardSend(d)

\* the task running ws::proxy is polled whenever a relay can make a step
SpecBridge ==
    /\ InitBridge
    /\ [][NextBridge]_vars
    /\ \A d \in Directions : WF_vars(ForwardPoll(d)) /\ WF_vars(ForwardSend(d))

(***************************************************************************)
(* Properties.                                                             *)
(***************************************************************************)
\* the kinds listed for a chain in a table
ListedKinds(table, chain) ==
    IF chain \in DOMAIN table
    THEN {table[chain][i].kind : i \in 1..Len(table[chain])}
    ELSE {}

\* the chains some registered catalog lists, per table
CatalogChains(ws) ==
    UNION {DOMAIN supported_chains(kind) :
             kind \in IF ws THEN {WsRegisterOrder[i] : i \in DOMAIN WsRegisterOrder}
                      ELSE {RegisterOrder[i] : i \in DOMAIN RegisterOrder}}

\* the order of providers in each chain's list
Topology(table) ==
    [c \in DOMAIN table |-> [i \in 1..Len(table[c]) |-> table[c][i].kind]]

\* C1: the selector's answer for (chain, excluded) is never a provider of
\* the excluded set.
C1_SelectNeverReturnsExcluded ==
    sel.pc = "returned" => sel.outcome \notin sel.excluded

\* C2: when the weights loaded for the chain's list are not all zero, the
\* selector returns a provider that is listed for the chain (the adapter
\* registered under the drawn kind); for a chain in no catalog it returns None.
C2_SelectReturnsListedProvider ==
    sel.pc = "returned" =>
        /\ sel.chain \notin CatalogChains(sel.ws) => sel.outcome = "None"
        /\ (sel.key # NoKey /\ Sum(sel.loaded) > 0) =>
              /\ sel.outcome \in ListedKinds(Table(sel.ws), sel.chain)
              /\ sel.outcome = Table(sel.ws)[sel.chain][sel.index].kind

C2_Witness ==
    /\ sel.pc = "returned"
    /\ ~sel.ws
    /\ Len(sel.loaded) > 1
    /\ \E i \in 1..Len(sel.loaded) : sel.loaded[i] = 0
    /\ sel.outcome \in ProviderKind

\* C3: when the weights loaded for a chain's list sum to zero, the selector
\* returns None as a value and does not panic.
C3_ZeroSumReturnsNone ==
    (sel.pc = "returned" /\ sel.key # NoKey /\ Sum(sel.loaded) = 0)
        => sel.outcome = "None"

\* C4: an entry whose cell has held 0 since the selection started (from
\* startup, or since an update stored 0, with no later store raising it) is
\* not the entry the selection returns.
C4_ZeroWeightNeverSelected ==
    (sel.pc = "returned" /\ sel.index # 0) => sel.index \notin sel.zero_since

\* a selection returned a provider for eip155:1 while the cell of Pokt
\* (Disabled) and a cell that the updater zeroed both held 0 throughout
C4_Witness ==
    /\ sel.pc = "returned"
    /\ sel.index # 0
    /\ sel.chain = "eip155:1"
    /\ \E i, j \in sel.zero_since :
         /\ weight_resolver[sel.chain][i].kind = "Pokt"
         /\ weight_resolver[sel.chain][j].kind = "Publicnode"

\* C5: the Dispatcher never calls a provider that is in the tried set, and
\* the tried set never has more than MAX_ATTEMPTS members.
C5_NeverRetriesTried ==
    /\ req.pc = "call" => req.kind \notin req.tried
    /\ Cardinality(req.tried) <= MAX_ATTEMPTS

\* C6: a request for a chain in no catalog makes no upstream call and ends
\* with ChainNotSupported.
C6_UnknownChainNotSupported ==
    (req.pc # "idle" /\ req.chain \notin CatalogChains(FALSE)) =>
        /\ req.calls = 0
        /\ req.pc \in {"select", "done"}
        /\ req.pc = "done" => req.result = "ChainNotSupported"

C6_Witness ==
    /\ req.pc = "done"
    /\ req.chain = UnknownChain
    /\ req.result = "ChainNotSupported"
    /\ req.tried = {}

\* C7: on a chain with two providers A and B, a request to which A answered
\* only 429 and B only 200 ends with B's response, its tried set holds A at
\* most, the success metrics count B only and the rate-limit metric A only.
C7_ThrottledProviderFailsOver ==
    \A A, B \in ProviderKind :
        ( /\ req.pc = "done"
          /\ A # B
          /\ req.chain \in DOMAIN weight_resolver
          /\ Len(weight_resolver[req.chain]) = 2
          /\ ListedKinds(weight_resolver, req.chain) = {A, B}
          /\ req.failed = {}
          /\ req.throttled \subseteq {A}
          /\ (req.result = "Response" =>
                <<req.from, req.status>> \in {<<A, 429>>, <<B, 200>>}) )
        => /\ req.result = "Response"
           /\ req.from = B
           /\ req.status = 200
           /\ req.tried \subseteq {A}
           /\ \A k \in ProviderKind :
                /\ req.rate_limited_call[k] > 0 => k = A
                /\ (req.status_code[k] > 0 \/ req.latency[k] > 0
                     \/ req.finished_call[k] > 0) => k = B

C10_UpdateKeepsTopology ==
    [][Booted => /\ Topology(weight_resolver)' = Topology(weight_resolver)
                 /\ Topology(ws_weight_resolver)' = Topology(ws_weight_resolver)]_vars

\* an update pass has stored into every cell and changed weights
C10_Witness ==
    /\ upd.pc = "query"
    /\ scope = "eip155:1"
    /\ \E i \in 1..Len(weight_resolver[scope]) :
         weight_resolver[scope][i].weight
            # PriorityValue(supported_chains(weight_resolver[scope][i].kind)[scope].priority)

\* the weights held by the cells of a chain's list
Weights(table, chain) ==
    [i \in 1..Len(table[chain]) |-> table[chain][i].weight]

\* C11: when an update pass has stored into every cell, the weights of every
\* chain's list sum to more than 0.
C11_UpdatePassKeepsPositiveSum ==
    upd.pc = "query" =>
        \A c \in DOMAIN weight_resolver : Sum(Weights(weight_resolver, c)) > 0

\* C17: a selection finds a list for a chain id exactly when it finds one for
\* the lower-case form of that chain id.
C17_ChainIdCaseInsensitive ==
    sel.pc = "returned" =>
        (sel.key = NoKey <=> TableFind(Table(sel.ws), to_lowercase(sel.chain)) = NoKey)

\* C19: in a selection during which no weight of the list changes, entry i is
\* drawn by exactly w_i of the total equally likely draws, the providers the
\* draw can yield are exactly the listed providers whose weight is > 0, and
\* the entry returned had a weight > 0.
C19_DrawProportionalToWeights ==
    /\ (sel.pc = "load" /\ ~sel.overlap
          /\ Len(sel.loaded) = Len(Table(sel.ws)[sel.key])) =>
         LET list == Table(sel.ws)[sel.key]
         IN /\ \A i \in 1..Len(list) :
                 Cardinality({r \in 0..(Sum(sel.loaded) - 1) :
                                WeightedIndexPick(sel.loaded, r) = i}) = list[i].weight
            /\ {ProviderGet(ProviderMap(sel.ws), list[i].kind) :
                    i \in WeightedIndexSample(sel.loaded)}
                 = {list[i].kind : i \in {j \in 1..Len(list) : list[j].weight > 0}}
    /\ (sel.pc = "returned" /\ ~sel.overlap /\ sel.index # 0) =>
         sel.loaded[sel.index] > 0

\* a selection over the startup weights of eip155:1 (0, 1, 3, 2) returned the
\* provider of weight 3
C19_Witness ==
    /\ sel.pc = "returned"
    /\ ~sel.overlap
    /\ sel.loaded = <<0, 1, 3, 2>>
    /\ sel.outcome = "Publicnode"

\* C20: a selection whose loads interleave with the stores of an update pass
\* completes normally: it returns None, or a provider whose loaded weight
\* was > 0.
C20_InterleavedSelectionCompletes ==
    (sel.pc = "returned" /\ sel.overlap) =>
        \/ sel.outcome = "None"
        \/ (sel.outcome \in ProviderKind /\ sel.loaded[sel.index] > 0)

\* s is a prefix of t
IsPrefix(s, t) == Len(s) <= Len(t) /\ SubSeq(t, 1, Len(s)) = s

\* the data frames of a sequence of messages
DataFrames(s) == SelectSeq(s, LAMBDA m : m # CloseFrame)

C13_RelayPreservesMessages ==
    /\ \A d \in Directions : IsPrefix(bridge.delivered[d], bridge.taken[d])
    /\ IsPrefix(DataFrames(bridge.delivered["read"]),
                [i \in 1..bridge.sent |-> i])

\* the client sent three frames and received exactly the three, in order
C13_Witness ==
    /\ bridge.sent = 3
    /\ bridge.delivered["read"] = <<1, 2, 3>>

\* C14: the body an adapter sends upstream has the bytes of the request body,
\* and the Response it returns has the upstream's status and the bytes of the
\* upstream's body, whatever the status.
C14_PayloadOpaque ==
    (call.pc = "proxied" /\ call.forwarded) =>
        /\ to_bytes(call.sent) = call.body
        /\ call.ok =>
              /\ call.response.status = call.upstream.status
              /\ to_bytes(call.response.chunks) = to_bytes(call.upstream.chunks)

\* Binance returned an upstream response of status 500 whose body came in
\* two chunks
C14_Witness ==
    /\ call.pc = "proxied"
    /\ call.kind = "Binance"
    /\ call.ok
    /\ call.upstream.status = 500
    /\ Len(call.upstream.chunks) = 2
    /\ call.sent = <<call.body>>

\* C15: the classifier of Infura, ZKSync and Publicnode answers true exactly
\* for status 429, the one of Binance exactly for status 403, and the
\* response is the same after the call as before.
C15_ClassifierByStatus ==
    call.pc = "classified" =>
        /\ call.kind \in {"Infura", "ZKSync", "Publicnode"} =>
              (call.limited <=> call.response.status = 429)
        /\ call.kind = "Binance" => (call.limited <=> call.response.status = 403)
        /\ call.kind \in {"Infura", "ZKSync", "Publicnode", "Binance"} =>
              call.classified = call.response

\* Binance's classifier answered true for a 403 with a body
C15_Witness ==
    /\ call.pc = "classified"
    /\ call.kind = "Binance"
    /\ call.response.status = 403
    /\ call.response.chunks # <<>>
    /\ call.limited

\* C16: Pokt's classifier answers true for a response whose JSON-RPC body
\* carries the error code -32068.
C16_PoktErrorCodeRateLimited ==
    (/\ call.pc = "classified"
     /\ call.kind = "Pokt"
     /\ jsonrpc_error_code(to_bytes(call.response.chunks)) = POKT_RATE_LIMITED)
        => call.limited

\* C18: for a chain id below 2^31, converting to the coin type and back gives
\* the chain id again, and the coin type is the chain id plus 2^31 (bit 31
\* set, the other bits those of the chain id), a 32-bit value; 137 gives
\* 2147483785 = 32768 * 2^16 + 137.
C18_CoinTypeRoundTrip ==
    (conv.pc = "chain_id" /\ conv.chain_id.hi < 2^15) =>
        /\ conv.restored = conv.chain_id
        /\ conv.coin_type = U32(conv.chain_id.hi + 2^15, conv.chain_id.lo)
        /\ conv.coin_type.hi < Half /\ conv.coin_type.lo < Half
        /\ conv.chain_id = U32(0, 137) => conv.coin_type = U32(32768, 137)

\* the chain id 137 (Polygon) went to the coin type 2147483785 and back
C18_Witness ==
    /\ conv.pc = "chain_id"
    /\ conv.chain_id = U32(0, 137)
    /\ conv.coin_type = U32(32768, 137)
    /\ conv.restored = U32(0, 137)

\* the value the cell of entry i of chain's list has been given last: by the
\* updater's last store into it, else by the catalog at registration
CellValue(ws, chain, i) ==
    IF ~ws /\ <<chain, i>> \in DOMAIN upd.stored
    THEN upd.stored[<<chain, i>>]
    ELSE CatalogWeight(Table(ws), chain, i)

\* C21: every load of the selector reads the value last given to the cell of
\* that (provider, chain) pair: the value of the updater's last store into it,
\* or the catalog's value when the updater has not stored into it.
C21_SelectorLoadsUpdatersCell ==
    [][(sel.pc = "load" /\ sel'.pc = "load"
          /\ Len(sel'.loaded) = Len(sel.loaded) + 1) =>
         sel'.loaded[Len(sel'.loaded)] = CellValue(sel.ws, sel.key, Len(sel'.loaded))]_vars

\* a selection loaded, from the first cell of its chain, a value the updater
\* stored and the catalog did not give
C21_Witness ==
    /\ sel.pc = "load"
    /\ ~sel.ws
    /\ sel.loaded # <<>>
    /\ <<sel.key, 1>> \in DOMAIN upd.stored
    /\ sel.loaded[1] = upd.stored[<<sel.key, 1>>]
    /\ sel.loaded[1] # CatalogWeight(weight_resolver, sel.key, 1)

\* C22: every entry of a weight table names a provider whose registered adapter
\* has the entry's chain in its own chain map, on the HTTP and on the WS side,
\* and proxy of an adapter the selector returned never ends in ChainNotFound.
C22_SelectedAdapterSupportsChain ==
    /\ \A ws \in BOOLEAN : \A c \in DOMAIN Table(ws) : \A i \in 1..Len(Table(ws)[c]) :
         LET kind == Table(ws)[c][i].kind
         IN kind \in DOMAIN ProviderMap(ws) =>
              c \in DOMAIN ProviderMap(ws)[kind].supported_chains
    /\ sel.pc # "chain_not_found"

CallChainMap ==
    IF call.kind = "InfuraWs" THEN DOMAIN InfuraWsChains
    ELSE DOMAIN AdapterCatalog(call.kind)

\* the key the adapter of a call looks the chain up by
CallKey ==
    IF call.kind \in {"InfuraWs", "Publicnode"} THEN to_lowercase(call.chain)
    ELSE call.chain

OnlyOnce(m, kind) == m = [k \in ProviderKind |-> IF k = kind THEN 1 ELSE 0]

\* C25: a request that returns an upstream response has counted exactly one
\* status code, one latency observation and one finished call, all for the
\* provider whose response it returns, however many providers it called
\* before; a request that returns none has counted none of the three; and a
\* call classified as rate-limited counts the rate-limit metric only.
C25_OneSuccessMetricPerResponse ==
    /\ [](IF req.pc = "done" /\ req.result = "Response"
          THEN /\ OnlyOnce(req.status_code, req.from)
               /\ OnlyOnce(req.latency, req.from)
               /\ OnlyOnce(req.finished_call, req.from)
          ELSE /\ req.status_code = NoMetric
               /\ req.latency = NoMetric
               /\ req.finished_call = NoMetric)
    /\ [][(req.pc = "call" /\ req'.pc = "select" /\ req'.attempt = req.attempt) =>
            /\ req.kind \in req'.throttled
            /\ req'.rate_limited_call =
                  [req.rate_limited_call EXCEPT ![req.kind] = @ + 1]
            /\ req'.status_code = req.status_code
            /\ req'.latency = req.latency
            /\ req'.finished_call = req.finished_call]_vars

\* a request returned the response of a provider after another provider's
\* answer had been classified as rate-limited
C25_Witness ==
    /\ req.pc = "done"
    /\ req.result = "Response"
    /\ req.calls >= 2
    /\ req.throttled # {}
    /\ req.from \notin req.throttled
    /\ \E k \in req.throttled : req.rate_limited_call[k] = 1

\* C26: a call of Publicnode's proxy that got an answer from the upstream
\* returns the error Throttled exactly when the answer's status is 429, and
\* otherwise returns the upstream's response, status and body as received; no
\* call of it returns a response of status 429, and no call returns Throttled
\* without a 429 from the upstream.
C26_PublicnodeThrottledOn429 ==
    (call.pc = "proxied" /\ call.kind = "Publicnode") =>
        /\ (call.forwarded /\ ~call.upstream.transport) =>
              IF call.upstream.status = 429
              THEN ~call.ok /\ call.err = "Throttled" /\ call.response = NoResponse
              ELSE /\ call.ok
                   /\ call.err = ""
                   /\ call.response = [status |-> call.upstream.status,
                                       chunks |-> call.upstream.chunks]
        /\ call.ok => call.response.status # 429
        /\ call.err = "Throttled" =>
              call.forwarded /\ ~call.upstream.transport /\ call.upstream.status = 429

\* Publicnode's upstream answered 429 with a body, for a chain id given in
\* upper case
C26_Witness ==
    /\ call.pc = "proxied"
    /\ call.kind = "Publicnode"
    /\ call.chain = "EIP155:1"
    /\ call.upstream.status = 429
    /\ call.upstream.chunks # <<>>
    /\ call.err = "Throttled"

\* C27: a call of add_provider leaves the WS table and the WS provider map as
\* they are, a call of add_ws_provider the HTTP table and the HTTP provider
\* map, and a step of update_weights changes nothing but weights of the HTTP
\* table; every weight of the WS table is at all times the value the catalog
\* gave it.
C27_TablesIndependent ==
    /\ [](\A c \in DOMAIN ws_weight_resolver : \A i \in 1..Len(ws_weight_resolver[c]) :
            ws_weight_resolver[c][i].weight = CatalogWeight(ws_weight_resolver, c, i))
    /\ [][/\ (boot' # boot /\ boot < Len(RegisterOrder)) =>
               /\ ws_weight_resolver' = ws_weight_resolver
               /\ ws_providers' = ws_providers
          /\ (boot' # boot /\ boot >= Len(RegisterOrder)) =>
               /\ weight_resolver' = weight_resolver
               /\ providers' = providers
          /\ upd' # upd =>
               /\ ws_weight_resolver' = ws_weight_resolver
               /\ ws_providers' = ws_providers
               /\ providers' = providers
               /\ Topology(weight_resolver)' = Topology(weight_resolver)]_vars

\* after a whole update pass the HTTP cell of Infura for eip155:1 holds another
\* value than the catalog's, which the WS cell of Infura still holds
C27_Witness ==
    /\ upd.pc = "query"
    /\ "eip155:1" \in DOMAIN ws_weight_resolver
    /\ ws_weight_resolver["eip155:1"][1].kind = "Infura"
    /\ ws_weight_resolver["eip155:1"][1].weight = PriorityValue("Normal")
    /\ \E i \in 1..Len(weight_resolver["eip155:1"]) :
         /\ weight_resolver["eip155:1"][i].kind = "Infura"
         /\ weight_resolver["eip155:1"][i].weight # PriorityValue("Normal")

\* the checks C28 names, in the order it names them
C28_Order ==
    <<"message", "coin_type", "name", "timestamp", "signature", "owner", "attributes">>

\* whether the request and the name's row satisfy the condition of the check
C28_Holds(check) ==
    LET request == profile.request
        row == profile.row
    IN CASE check = "message" -> request.parses
         [] check = "coin_type" -> request.coin_type_ok
         [] check = "name" -> row.registered
         [] check = "timestamp" -> request.timestamp_ok
         [] check = "signature" ->
                request.address \in Addresses /\ request.signer = request.address
         [] check = "owner" ->
                row.address60 \in Addresses /\ request.address = row.address60
         [] check = "attributes" -> request.attributes_ok

\* C28: the profile attributes handler calls update_name_attributes only when
\* the message parses, the coin type is supported, the name is registered, the
\* timestamp is within the threshold, the signature verifies against the
\* payload address, the payload address equals the name's coin type 60 address
\* and the attributes are supported; it makes these checks in this order, stops
\* at the first that fails, and then leaves the name's attributes as they were.
C28_WriteOnlyAfterAllChecks ==
    profile.pc = "done" =>
        LET named == SelectSeq(profile.evaluated,
                               LAMBDA c : c \in {C28_Order[i] : i \in 1..Len(C28_Order)})
            all == \A i \in 1..Len(C28_Order) : C28_Holds(C28_Order[i])
        IN /\ profile.update_called <=> all
           /\ profile.attributes = "new" => all
           /\ ~all => /\ profile.attributes = "old"
                      /\ profile.result \notin {"Ok", "InternalServerError"}
           /\ IsPrefix(named, C28_Order)
           /\ \A i \in 1..Len(named) : i < Len(named) => C28_Holds(named[i])
           /\ all => named = C28_Order

\* the handler wrote the attributes of a name whose coin type 60 address signed
\* the request
C28_Witness ==
    /\ profile.pc = "done"
    /\ profile.update_called
    /\ profile.attributes = "new"
    /\ profile.result = "Ok"
    /\ profile.request.address = "0xB"
    /\ profile.row.address60 = "0xB"

\* whether some bridging asset's balance is greater than the transfer value
C29_BridgingAvailable ==
    \E i \in 1..Len(BridgingAssets) :
        ca.in.bridging[i] # QueryFailed /\ ca.in.bridging[i] > ca.in.value

\* C29: when the chain-agnostic check answers, requires_multi_chain is true
\* exactly when the native balance is not greater than the transfer value, the
\* data is an ERC20 transfer call and some bridging asset's balance is greater
\* than the transfer value, and it answers true in no other case; with a
\* native balance greater than the value it answers false and has queried the
\* native balance only; without project access it has made no balance query.
C29_MultiChainExactlyWhenBridgeable ==
    ca.pc = "done" =>
        LET needed == /\ ca.in.native # QueryFailed
                      /\ ca.in.value # InvalidValue
                      /\ ~(ca.in.native > ca.in.value)
                      /\ ca.in.data = "transfer"
                      /\ C29_BridgingAvailable
        IN /\ ca.result = "true" => (ca.in.access /\ ca.in.from_ok /\ needed)
           /\ ca.result \in {"true", "false"} => (ca.result = "true" <=> needed)
           /\ (/\ ca.in.access /\ ca.in.from_ok
               /\ ca.in.native # QueryFailed /\ ca.in.value # InvalidValue
               /\ ca.in.native > ca.in.value) =>
                 (ca.result = "false" /\ ca.queries = <<"native">>)
           /\ ~ca.in.access => (ca.queries = <<>> /\ ca.result = "AccessDenied")
           /\ ca.queries # <<>> => (ca.in.access /\ ca.queries[1] = "native")

\* the native balance equals the transfer value, the first bridging asset is
\* short of it and the second exceeds it: the handler answered true after
\* three balance queries
C29_Witness ==
    /\ ca.pc = "done"
    /\ ca.result = "true"
    /\ ca.in.native = ca.in.value
    /\ ca.in.bridging[1] # QueryFailed
    /\ ca.in.bridging[1] <= ca.in.value
    /\ Len(ca.queries) = 3

\* C30: set returns () with the cache as it was and the write spawned for the
\* key "project-data/{id}", the key fetch reads; a write that fails changes
\* nothing its caller sees; and the fetches of an id made after the return of
\* set(id, data), no other write for the id being under way, observe the cache
\* content of before or data.
C30_SetDoesNotAwaitCacheWrite ==
    /\ [](/\ \A i \in 1..Len(project.pending) :
               \E id \in ProjectIds : project.pending[i].key = "project-data/" \o id
          /\ project.last_set.alone =>
               project.saw \subseteq {project.last_set.prev, project.last_set.data}
          /\ project.returned # "WriteError")
    /\ [][Len(project'.pending) > Len(project.pending) =>
            /\ project'.cache = project.cache
            /\ project'.returned = "()"
            /\ project'.pending =
                  Append(project.pending,
                         [key |-> "project-data/" \o project'.last_set.id,
                          data |-> project'.last_set.data])]_vars
    /\ [][Len(project'.pending) < Len(project.pending) =>
            /\ project'.returned = project.returned
            /\ \A id \in ProjectIds :
                 project'.cache["project-data/" \o id] # project.cache["project-data/" \o id]
                    => \E i \in 1..Len(project.pending) :
                          project.pending[i] =
                             [key |-> "project-data/" \o id,
                              data |-> project'.cache["project-data/" \o id]]]_vars
    /\ [][(project'.pending = project.pending /\ project'.saw # project.saw) =>
            project'.returned = project.cache["project-data/" \o project.last_set.id]]_vars

\* after set("p1", "d2") returned, one fetch of p1 observed the earlier "d1"
\* and a later one "d2", and a cache write has failed
C30_Witness ==
    /\ project.last_set.id = "p1"
    /\ project.last_set.alone
    /\ project.last_set.prev = "d1"
    /\ project.last_set.data = "d2"
    /\ project.saw = {"d1", "d2"}
    /\ project.warned
    /\ project.returned = "d2"

====
